---- MODULE Spec2Model ----
(***************************************************************************)
(* Orders API of backend/routes/orders.js: the in-memory order registry,   *)
(* the order status operations and the server-sent-events fan-out.         *)
(* Every request handler runs to completion as one step (the handlers hold *)
(* no await), so each action below is one whole handler.                   *)
(***************************************************************************)
EXTENDS Integers, Sequences, FiniteSets, TLC

\* ------------------------------------------------------------------ bounds
\* The most orders a run creates, the most event-stream connections that
\* exist at one time, and the most callers.
MaxOrders == 2
MaxConns == 2
MaxUsers == 2

\* In the runs that keep a history: the most events recorded for one
\* connection, and the most close events handled.
MaxEvents == 2
MaxCloses == 2

\* ------------------------------------------------------- program constants
FirstOrderNumericId == 1010
MinPayout == 30

Undefined == "undefined"

OrderStatuses ==
  {"pending", "confirmed", "preparing", "out_for_delivery", "delivered", "cancelled"}

AvailableStatuses == {"pending", "confirmed", "preparing"}

AcceptableStatuses == {"pending"}

\* Values a client may send as body.status: the six of the enum and two others.
StatusInputs == OrderStatuses \cup {"shipped", Undefined}

\* `ORD-${n}`
OrderId(n) == <<"ORD-", n>>

\* ------------------------------------------------------------ request data
\* req.user as the auth middleware supplies it; the second user has no name.
AllUsers ==
  << [id |-> "u1", name |-> "Asha"], [id |-> "u2", name |-> Undefined],
     [id |-> "u3", name |-> "Ravi"], [id |-> "u4", name |-> "Meera"] >>

\* body.items: absent, a string, an empty list, and lists of line items
\* (quantity 0 stands for a missing or zero quantity, which the code reads as 1).
ItemsUndefined == [kind |-> "undefined", elems |-> << >>]
ItemsString == [kind |-> "string", elems |-> << >>]
ItemsArray(s) == [kind |-> "array", elems |-> s]

AllItemLists ==
  << << [price |-> 100, quantity |-> 2] >>,
     << [price |-> 1000, quantity |-> 0] >>,
     << [price |-> 300, quantity |-> 1], [price |-> 45, quantity |-> 1] >>,
     << [price |-> 0 - 50, quantity |-> 3] >> >>

AllPaymentMethods == << "cash", "card" >>

AddressInputs == {Undefined, "", "12 Main St"}

\* The clock values new Date() may return, in order.
AllTimes == << "t1", "t2" >>

Range(s) == {s[i] : i \in 1..Len(s)}

Prefix(s, n) == {s[i] : i \in 1..(IF n < Len(s) THEN n ELSE Len(s))}

\* What one run explores: how many orders, connections, users, item lists,
\* payment methods and clock values.  The registry scope has several orders,
\* the drivers scope several callers, the broadcast scope several
\* connections, the payout scope several item lists.
Scopes ==
  { [name |-> "registry", orders |-> MaxOrders, conns |-> 0, users |-> 1,
     itemLists |-> 1, payments |-> 1, times |-> 1],
    [name |-> "drivers", orders |-> 1, conns |-> 1, users |-> MaxUsers,
     itemLists |-> 1, payments |-> 1, times |-> 1],
    [name |-> "broadcast", orders |-> 1, conns |-> MaxConns, users |-> 1,
     itemLists |-> 1, payments |-> 1, times |-> 1],
    [name |-> "payout", orders |-> 1, conns |-> 0, users |-> 1,
     itemLists |-> Len(AllItemLists), payments |-> Len(AllPaymentMethods),
     times |-> Len(AllTimes)] }

VARIABLES
  scope,                \* the scope of this run (never changes)
  inMemoryOrders,       \* the Map, as its entries in insertion order
  nextOrderNumericId,   \* the id counter
  sseClients,           \* the Set of open responses, in insertion order
  pingTimers,           \* the connections whose keep-alive interval is set
  socket,               \* per connection: "idle", "open" or "dead"
  now,                  \* index of the current clock value
  response,             \* the HTTP response sent in the last step, if any
  broadcasts,           \* the calls of broadcastOrderEvent in the last step
  wire,                 \* the res.write calls on event streams in the last step
  history               \* what happened so far (kept under SpecHistory only)

vars ==
  <<scope, inMemoryOrders, nextOrderNumericId, sseClients, pingTimers, socket,
    now, response, broadcasts, wire, history>>

Conns == 1..scope.conns

Users == Prefix(AllUsers, scope.users)

ItemLists == Prefix(AllItemLists, scope.itemLists)

ItemsInputs == {ItemsUndefined, ItemsString, ItemsArray(<< >>)} \cup {ItemsArray(l) : l \in ItemLists}

PaymentInputs == {Undefined, ""} \cup Prefix(AllPaymentMethods, scope.payments)

\* The ids requests name: one below the first id, and every id a run can issue.
RequestIds == {OrderId(n) : n \in (FirstOrderNumericId - 1)..(FirstOrderNumericId + scope.orders - 1)}

\* ------------------------------------------------------------------ the Map
MapIndex(m, k) ==
  IF \E i \in 1..Len(m) : m[i].key = k
  THEN CHOOSE i \in 1..Len(m) : m[i].key = k
  ELSE 0

MapHas(m, k) == MapIndex(m, k) # 0

MapGet(m, k) == m[MapIndex(m, k)].value

\* A set that takes an existing key out and puts it back at the end.
MapSetMoveToEnd(m, k, v) ==
  LET Other(e) == e.key # k
  IN Append(SelectSeq(m, Other), [key |-> k, value |-> v])

\* Map.prototype.set: replaces the value of an existing key in place, appends a new key.
MapSet(m, k, v) ==
  IF MapHas(m, k)
  THEN [m EXCEPT ![MapIndex(m, k)] = [key |-> k, value |-> v]]
  ELSE Append(m, [key |-> k, value |-> v])

\* Array.from(map.values())
MapValues(m) == [i \in 1..Len(m) |-> m[i].value]

\* The handlers change the order object they got from the Map; the Map entry
\* is that same object.
MutateValue(m, k, v) == [m EXCEPT ![MapIndex(m, k)].value = v]

\* ------------------------------------------------------------------ the Set
\* Set.prototype.add and delete; a Set iterates in insertion order.
SetAdd(s, c) == IF c \in Range(s) THEN s ELSE Append(s, c)

\* A delete that leaves the Set as it is.
SetDeleteNothing(s, c) == s

\* A delete by splice(indexOf(c), 1): with c absent it drops the last member.
SetDeleteSplice(s, c) ==
  IF c \in Range(s) THEN LET Other(x) == x # c IN SelectSeq(s, Other)
  ELSE SubSeq(s, 1, Len(s) - 1)

SetDelete(s, c) == LET Other(x) == x # c IN SelectSeq(s, Other)

\* ------------------------------------------------------------ the broadcast
\* `event: ${type}\ndata: ${JSON.stringify(payload)}\n\n`: the frame holds the
\* payload as it is when the frame is built.
EventFrame(type, payload) == [kind |-> "event", event |-> type, data |-> payload]

\* res.write on a connection: it reaches the client when the socket is open,
\* and fails when the client has gone.
WriteOutcome(c) == IF socket[c] = "open" THEN "delivered" ELSE "failed"

\* A write with no try around it: a failed write throws.
AfterWriteThrow(outcome) == IF outcome = "failed" THEN "throw" ELSE "continue"

\* try { res.write(data); } catch (_) {}: whatever the outcome, the loop goes on.
AfterWrite(outcome) == "continue"

\* A loop that ends, without throwing, at the first write that fails.
RECURSIVE WriteLoopStopAtFailure(_, _)
WriteLoopStopAtFailure(clients, frame) ==
  IF clients = << >> THEN [writes |-> << >>, threw |-> FALSE]
  ELSE LET c == Head(clients)
           w == [to |-> c, frame |-> frame, outcome |-> WriteOutcome(c)]
       IN IF w.outcome = "failed"
          THEN [writes |-> <<w>>, threw |-> FALSE]
          ELSE LET rest == WriteLoopStopAtFailure(Tail(clients), frame)
               IN [writes |-> <<w>> \o rest.writes, threw |-> rest.threw]

\* for (const res of sseClients) { try { res.write(data); } catch (_) {} }
\* The result is the writes made, in order, and whether the loop threw.
RECURSIVE WriteLoop(_, _)
WriteLoop(clients, frame) ==
  IF clients = << >> THEN [writes |-> << >>, threw |-> FALSE]
  ELSE LET c == Head(clients)
           w == [to |-> c, frame |-> frame, outcome |-> WriteOutcome(c)]
       IN IF w.outcome = "failed" /\ AfterWrite(w.outcome) = "throw"
          THEN [writes |-> <<w>>, threw |-> TRUE]
          ELSE LET rest == WriteLoop(Tail(clients), frame)
               IN [writes |-> <<w>> \o rest.writes, threw |-> rest.threw]

\* A broadcast whose frame holds the order as the Map had it before the step.
broadcastStaleOrder(type, payload) ==
  LET stale == IF MapHas(inMemoryOrders, payload.id)
               THEN MapGet(inMemoryOrders, payload.id) ELSE payload
      loop == WriteLoop(sseClients, EventFrame(type, stale))
  IN [calls |-> << [type |-> type, payload |-> stale] >>,
      writes |-> loop.writes,
      threw |-> loop.threw]

\* A broadcast that writes to the first client of the Set only.
broadcastFirstClientOnly(type, payload) ==
  LET first == IF sseClients = << >> THEN << >> ELSE << Head(sseClients) >>
      loop == WriteLoop(first, EventFrame(type, payload))
  IN [calls |-> << [type |-> type, payload |-> payload] >>,
      writes |-> loop.writes,
      threw |-> loop.threw]

broadcastOrderEvent(type, payload) ==
  LET loop == WriteLoop(sseClients, EventFrame(type, payload))
  IN [calls |-> << [type |-> type, payload |-> payload] >>,
      writes |-> loop.writes,
      threw |-> loop.threw]

\* --------------------------------------------------------------- responses
NoId == OrderId(0)

OrderBody(o) == [kind |-> "order", order |-> o]

OrdersBody(os) == [kind |-> "orders", orders |-> os]

ErrorBody(msg) == [kind |-> "error", error |-> msg]

ErrorsBody(errs) == [kind |-> "errors", errors |-> errs]

Respond(op, id, code, body) == [op |-> op, id |-> id, code |-> code, body |-> body]

\* catch (error) { res.status(500).json({ error: 'Server error' }) }
ServerError(op, id) == Respond(op, id, 500, ErrorBody("Server error"))

\* A not-found answer sent without its status code.
NotFoundAs200(op, id) == Respond(op, id, 200, ErrorBody("Order not found"))

NotFound(op, id) == Respond(op, id, 404, ErrorBody("Order not found"))

\* A step that sends no HTTP response (a timer, a socket event).
NoResponse == Respond("none", NoId, 0, ErrorBody(""))

\* A handler that ends without publishing.
Quiet == broadcasts' = << >> /\ wire' = << >>

Published(b) == broadcasts' = b.calls /\ wire' = b.writes

\* Per connection, since it was opened: the successful mutations applied to
\* the registry and the event frames that reached the client; and the number
\* of close events handled.
NoHistory ==
  [applied |-> [c \in Conns |-> << >>], stream |-> [c \in Conns |-> << >>], closes |-> 0]

Init ==
  /\ scope \in Scopes
  /\ history = NoHistory
  /\ inMemoryOrders = << >>
  /\ nextOrderNumericId = FirstOrderNumericId
  /\ sseClients = << >>
  /\ pingTimers = {}
  /\ socket = [c \in Conns |-> "idle"]
  /\ now = 1
  /\ response = NoResponse
  /\ broadcasts = << >>
  /\ wire = << >>

\* ------------------------------------------------------------------ create
\* isArray without its minimum length.
ItemsValidNoMin(items) == items.kind = "array"

\* body('items').isArray({ min: 1 })
ItemsValid(items) == items.kind = "array" /\ Len(items.elems) >= 1

\* body(field).notEmpty(): an absent field and the empty string both fail.
NotEmpty(v) == v # Undefined /\ v # ""

\* validationResult(req).array(), as the messages in the order of the chains.
CreateErrors(items, address, payment) ==
  (IF ItemsValid(items) THEN << >> ELSE << "At least one item is required" >>)
  \o (IF NotEmpty(address) THEN << >> ELSE << "Delivery address is required" >>)
  \o (IF NotEmpty(payment) THEN << >> ELSE << "Payment method is required" >>)

\* A line total that takes the quantity as it is, with no default.
LineTotalQuantityAsIs(it) == it.price * it.quantity

\* Number(it.price) * Number(it.quantity || 1)
LineTotal(it) == it.price * (IF it.quantity = 0 THEN 1 ELSE it.quantity)

\* items.reduce((sum, it) => sum + ..., 0)
RECURSIVE ItemsTotal(_)
ItemsTotal(elems) ==
  IF elems = << >> THEN 0
  ELSE LET front == SubSeq(elems, 1, Len(elems) - 1)
       IN ItemsTotal(front) + LineTotal(elems[Len(elems)])

\* Math.round(x * 0.1) for an integer x: the nearest integer, a half rounding up.
RoundTenth(x) == (x + 5) \div 10

Max(a, b) == IF a >= b THEN a ELSE b

\* Math.max(30, Math.round(total * 0.1))
PayoutAmount(elems) == Max(MinPayout, RoundTenth(ItemsTotal(elems)))

NoDriver == [id |-> Undefined, name |-> Undefined]

\* An id generator that does not advance the counter.
generateOrderIdNoIncrement == [id |-> OrderId(nextOrderNumericId), next |-> nextOrderNumericId]

\* const generateOrderId = () => `ORD-${nextOrderNumericId++}`
generateOrderId == [id |-> OrderId(nextOrderNumericId), next |-> nextOrderNumericId + 1]

\* The order object of the create handler.  The fields that take a default
\* from an absent body field and that nothing reads again (restaurantId,
\* customerName, customerPhone, deliveryInstructions, restaurantName,
\* pickupAddress) are left out; an order has no driver property until assign.
NewOrder(id, user, items, address, payment, t) ==
  [ id |-> id,
    userId |-> user.id,
    items |-> items.elems,
    deliveryAddress |-> address,
    paymentMethod |-> payment,
    createdAt |-> AllTimes[t],
    status |-> "pending",
    payoutAmount |-> PayoutAmount(items.elems),
    dropAddress |-> address,
    paymentType |-> IF payment = "cash" THEN "COD" ELSE "Paid Online",
    driver |-> NoDriver ]

\* A create that stores the order under the id after its own.
CreateKeyNext(newOrder) == OrderId(newOrder.id[2] + 1)

\* Where the create handler stores the new order.
CreateKey(newOrder) == newOrder.id

\* POST /
Create(user, items, address, payment, t) ==
  LET errors == CreateErrors(items, address, payment) IN
  IF errors # << >>
  THEN /\ response' = Respond("create", NoId, 400, ErrorsBody(errors))
       /\ Quiet
       /\ UNCHANGED <<scope, inMemoryOrders, nextOrderNumericId, sseClients,
                      pingTimers, socket, now>>
  ELSE LET gen == generateOrderId
           newOrder == NewOrder(gen.id, user, items, address, payment, t)
           b == broadcastOrderEvent("order_created", newOrder)
       IN /\ nextOrderNumericId < FirstOrderNumericId + scope.orders
          /\ nextOrderNumericId' = gen.next
          /\ now' = t
          /\ inMemoryOrders' = MapSet(inMemoryOrders, CreateKey(newOrder), newOrder)
          /\ Published(b)
          /\ response' = IF b.threw THEN ServerError("create", NoId)
                         ELSE Respond("create", newOrder.id, 201, OrderBody(newOrder))
          /\ UNCHANGED <<scope, sseClients, pingTimers, socket>>

\* ------------------------------------------------------------------- reads
\* GET /
ListOrders ==
  /\ response' = Respond("list", NoId, 200, OrdersBody(MapValues(inMemoryOrders)))
  /\ Quiet
  /\ UNCHANGED <<scope, inMemoryOrders, nextOrderNumericId, sseClients,
                 pingTimers, socket, now>>

\* GET /:id
GetOrder(id) ==
  /\ response' = IF ~MapHas(inMemoryOrders, id) THEN NotFound("get", id)
                 ELSE Respond("get", id, 200, OrderBody(MapGet(inMemoryOrders, id)))
  /\ Quiet
  /\ UNCHANGED <<scope, inMemoryOrders, nextOrderNumericId, sseClients,
                 pingTimers, socket, now>>

\* An available filter that also lets out_for_delivery through.
IsAvailableOrOut(o) == o.status \in AvailableStatuses \cup {"out_for_delivery"}

\* o => ['pending', 'confirmed', 'preparing'].includes(o.status)
IsAvailable(o) == o.status \in AvailableStatuses

\* Array.from(inMemoryOrders.values()).filter(...)
AvailableOrders(m) == SelectSeq(MapValues(m), IsAvailable)

\* GET /available/list
ListAvailable ==
  /\ response' = Respond("available", NoId, 200, OrdersBody(AvailableOrders(inMemoryOrders)))
  /\ Quiet
  /\ UNCHANGED <<scope, inMemoryOrders, nextOrderNumericId, sseClients,
                 pingTimers, socket, now>>

\* ----------------------------------------------------------- update status
\* A status check that only asks for a value to be present.
StatusPresent(status) == status # Undefined

\* body('status').isIn([...the six values...])
StatusValid(status) == status \in OrderStatuses

\* A status change that also computes the payout again, without its minimum.
SetStatusRecompute(order, status) ==
  [order EXCEPT !.status = status, !.payoutAmount = RoundTenth(ItemsTotal(order.items))]

\* order.status = req.body.status
SetStatus(order, status) == [order EXCEPT !.status = status]

\* PUT /:id/status
UpdateStatus(id, status) ==
  IF ~StatusValid(status)
  THEN /\ response' = Respond("status", id, 400, ErrorsBody(<< "Invalid order status" >>))
       /\ Quiet
       /\ UNCHANGED <<scope, inMemoryOrders, nextOrderNumericId, sseClients,
                      pingTimers, socket, now>>
  ELSE IF ~MapHas(inMemoryOrders, id)
  THEN /\ response' = NotFound("status", id)
       /\ Quiet
       /\ UNCHANGED <<scope, inMemoryOrders, nextOrderNumericId, sseClients,
                      pingTimers, socket, now>>
  ELSE LET order == SetStatus(MapGet(inMemoryOrders, id), status)
           b == broadcastOrderEvent("order_updated", order)
       IN /\ inMemoryOrders' = MapSet(MutateValue(inMemoryOrders, id, order), order.id, order)
          /\ Published(b)
          /\ response' = IF b.threw THEN ServerError("status", id)
                         ELSE Respond("status", id, 200, OrderBody(order))
          /\ UNCHANGED <<scope, nextOrderNumericId, sseClients, pingTimers, socket, now>>

\* ------------------------------------------------------------------ assign
\* An assign check that also admits an order already out for delivery.
AssignableOrOut(order) == order.status \in AvailableStatuses \cup {"out_for_delivery"}

\* !['pending', 'confirmed', 'preparing'].includes(order.status)
Assignable(order) == order.status \in AvailableStatuses

\* { id: req.user?._id || req.user?.id, name: req.user?.name || 'Driver' }
DriverOf(user) ==
  [id |-> user.id, name |-> IF user.name = Undefined THEN "Driver" ELSE user.name]

\* An assign that records the driver and leaves the status as it was.
AssignToDriverOnly(order, user) == [order EXCEPT !.driver = DriverOf(user)]

\* order.status = 'out_for_delivery'; order.driver = {...}
AssignTo(order, user) ==
  [order EXCEPT !.status = "out_for_delivery", !.driver = DriverOf(user)]

\* POST /:id/assign
Assign(id, user) ==
  IF ~MapHas(inMemoryOrders, id)
  THEN /\ response' = NotFound("assign", id)
       /\ Quiet
       /\ UNCHANGED <<scope, inMemoryOrders, nextOrderNumericId, sseClients,
                      pingTimers, socket, now>>
  ELSE IF ~Assignable(MapGet(inMemoryOrders, id))
  THEN /\ response' = Respond("assign", id, 400, ErrorBody("Order is not available for assignment"))
       /\ Quiet
       /\ UNCHANGED <<scope, inMemoryOrders, nextOrderNumericId, sseClients,
                      pingTimers, socket, now>>
  ELSE LET order == AssignTo(MapGet(inMemoryOrders, id), user)
           b == broadcastOrderEvent("order_assigned", order)
       IN /\ inMemoryOrders' = MapSet(MutateValue(inMemoryOrders, id, order), order.id, order)
          /\ Published(b)
          /\ response' = IF b.threw THEN ServerError("assign", id)
                         ELSE Respond("assign", id, 200, OrderBody(order))
          /\ UNCHANGED <<scope, nextOrderNumericId, sseClients, pingTimers, socket, now>>

\* ------------------------------------------------------- restaurant accept
\* An accept check that also admits a confirmed order.
AcceptableOrConfirmed(order) == order.status \in {"pending", "confirmed"}

\* !['pending'].includes(order.status)
Acceptable(order) == order.status \in AcceptableStatuses

\* order.status = 'confirmed'
Confirm(order) == [order EXCEPT !.status = "confirmed"]

\* POST /:id/accept-restaurant
AcceptRestaurant(id) ==
  IF ~MapHas(inMemoryOrders, id)
  THEN /\ response' = NotFound("accept", id)
       /\ Quiet
       /\ UNCHANGED <<scope, inMemoryOrders, nextOrderNumericId, sseClients,
                      pingTimers, socket, now>>
  ELSE IF ~Acceptable(MapGet(inMemoryOrders, id))
  THEN /\ response' = Respond("accept", id, 400, ErrorBody("Order cannot be accepted"))
       /\ Quiet
       /\ UNCHANGED <<scope, inMemoryOrders, nextOrderNumericId, sseClients,
                      pingTimers, socket, now>>
  ELSE LET order == Confirm(MapGet(inMemoryOrders, id))
           b == broadcastOrderEvent("order_confirmed", order)
       IN /\ inMemoryOrders' = MapSet(MutateValue(inMemoryOrders, id, order), order.id, order)
          /\ Published(b)
          /\ response' = IF b.threw THEN ServerError("accept", id)
                         ELSE Respond("accept", id, 200, OrderBody(order))
          /\ UNCHANGED <<scope, nextOrderNumericId, sseClients, pingTimers, socket, now>>

\* ------------------------------------------------------------ event stream
CommentFrame(text) == [kind |-> "comment", event |-> text, data |-> NoDriver]

\* GET /events: a new connection c.  The handler writes the first comment,
\* adds res to the Set, starts the keep-alive interval and listens for close.
Subscribe(c) ==
  /\ socket[c] = "idle"
  /\ socket' = [socket EXCEPT ![c] = "open"]
  /\ wire' = << [to |-> c, frame |-> CommentFrame("connected"), outcome |-> "delivered"] >>
  /\ broadcasts' = << >>
  /\ sseClients' = SetAdd(sseClients, c)
  /\ pingTimers' = pingTimers \cup {c}
  /\ response' = Respond("events", NoId, 200, ErrorBody(""))
  /\ UNCHANGED <<scope, inMemoryOrders, nextOrderNumericId, now>>

\* The interval callback: try { res.write(`: ping ...`) } catch (_) {}
Ping(c) ==
  /\ c \in pingTimers
  /\ wire' = << [to |-> c, frame |-> CommentFrame("ping"), outcome |-> WriteOutcome(c)] >>
  /\ broadcasts' = << >>
  /\ response' = NoResponse
  /\ UNCHANGED <<scope, inMemoryOrders, nextOrderNumericId, sseClients, pingTimers,
                 socket, now>>

\* The client goes away; the close event of its request has not been handled yet.
Disconnect(c) ==
  /\ socket[c] = "open"
  /\ socket' = [socket EXCEPT ![c] = "dead"]
  /\ Quiet
  /\ response' = NoResponse
  /\ UNCHANGED <<scope, inMemoryOrders, nextOrderNumericId, sseClients, pingTimers,
                 now>>

\* req.on('close', ...): clearInterval(ping); sseClients.delete(res).
\* After it the connection is over; c may name a new connection later.
Close(c) ==
  /\ socket[c] = "dead"
  /\ socket' = [socket EXCEPT ![c] = "idle"]
  /\ pingTimers' = pingTimers \ {c}
  /\ sseClients' = SetDelete(sseClients, c)
  /\ Quiet
  /\ response' = NoResponse
  /\ UNCHANGED <<scope, inMemoryOrders, nextOrderNumericId, now>>

\* ------------------------------------------------------------ specification
Steps ==
  \/ \E u \in Users, items \in ItemsInputs, a \in AddressInputs, p \in PaymentInputs,
        t \in now..scope.times : Create(u, items, a, p, t)
  \/ ListOrders
  \/ \E id \in RequestIds : GetOrder(id)
  \/ ListAvailable
  \/ \E id \in RequestIds, st \in StatusInputs : UpdateStatus(id, st)
  \/ \E id \in RequestIds, u \in Users : Assign(id, u)
  \/ \E id \in RequestIds : AcceptRestaurant(id)
  \/ \E c \in Conns : Subscribe(c)
  \/ \E c \in Conns : Ping(c)
  \/ \E c \in Conns : Disconnect(c)
  \/ \E c \in Conns : Close(c)

Next == Steps /\ UNCHANGED history

Spec == Init /\ [][Next]_vars

\* ------------------------------------------------------- notions of claims
Stored == MapValues(inMemoryOrders)

Lifecycle == << "pending", "confirmed", "preparing", "out_for_delivery", "delivered" >>

Rank(status) == CHOOSE i \in 1..Len(Lifecycle) : Lifecycle[i] = status

\* A change of status the lifecycle permits: none, a move forward along the
\* lifecycle, or a change to cancelled.
ForwardOrCancel(old, new) ==
  \/ new = old
  \/ new = "cancelled"
  \/ old \in Range(Lifecycle) /\ new \in Range(Lifecycle) /\ Rank(new) > Rank(old)

Succeeded(op) == response'.op = op /\ response'.code \in {200, 201}

RegistryUnchanged == UNCHANGED <<inMemoryOrders, nextOrderNumericId>>

\* C1: no order's status changes to an earlier value of the lifecycle; the
\* only other change is one to cancelled.
C1_StatusOnlyForward ==
  [][\A i \in 1..Len(inMemoryOrders) :
       ForwardOrCancel(inMemoryOrders[i].value.status, inMemoryOrders'[i].value.status)]_vars

\* C2: once an order has a driver, no later step changes or replaces it.
C2_DriverSetOnce ==
  [][\A i \in 1..Len(inMemoryOrders) :
       inMemoryOrders[i].value.driver # NoDriver
         => inMemoryOrders'[i].value.driver = inMemoryOrders[i].value.driver]_vars

\* C3: assign on an existing order succeeds iff its status is pending,
\* confirmed or preparing; on success the status is out_for_delivery and the
\* caller is the driver; otherwise it answers 400 and the order is unchanged.
C3_AssignIffAvailable ==
  [][\A id \in RequestIds, u \in Users :
       (Assign(id, u) /\ MapHas(inMemoryOrders, id)) =>
         LET old == MapGet(inMemoryOrders, id)
             new == MapGet(inMemoryOrders', id)
         IN IF old.status \in {"pending", "confirmed", "preparing"}
            THEN /\ response'.code = 200
                 /\ new.status = "out_for_delivery"
                 /\ new.driver.id = u.id
                 /\ response'.body = OrderBody(new)
            ELSE /\ old.status \in {"out_for_delivery", "delivered", "cancelled"}
                 /\ response'.code = 400
                 /\ response'.body = ErrorBody("Order is not available for assignment")
                 /\ new.status = old.status
                 /\ new.driver = old.driver
                 /\ RegistryUnchanged]_vars

C3_Witness ==
  /\ response.op = "assign"
  /\ response.code = 400
  /\ MapHas(inMemoryOrders, response.id)
  /\ MapGet(inMemoryOrders, response.id).status = "delivered"
  /\ MapGet(inMemoryOrders, response.id).driver # NoDriver

\* C4: restaurant-accept on an existing order succeeds iff its status is
\* pending and then sets it to confirmed; an accept that follows a successful
\* accept of the same order at once answers 400 and leaves it confirmed.
C4_AcceptIffPending ==
  [][\A id \in RequestIds :
       (AcceptRestaurant(id) /\ MapHas(inMemoryOrders, id)) =>
         LET old == MapGet(inMemoryOrders, id)
             new == MapGet(inMemoryOrders', id)
         IN /\ IF old.status = "pending"
               THEN /\ response'.code = 200
                    /\ new.status = "confirmed"
                    /\ response'.body = OrderBody(new)
               ELSE /\ response'.code = 400
                    /\ response'.body = ErrorBody("Order cannot be accepted")
                    /\ RegistryUnchanged
            /\ (response.op = "accept" /\ response.code = 200 /\ response.id = id)
                 => /\ response'.code = 400
                    /\ new.status = "confirmed"]_vars

C4_Witness ==
  /\ response.op = "accept"
  /\ response.code = 400
  /\ MapHas(inMemoryOrders, response.id)
  /\ MapGet(inMemoryOrders, response.id).status = "confirmed"

\* C5: an update-status request whose status is none of the six values
\* answers 400, changes nothing in the registry and publishes nothing; every
\* stored status is one of the six.
C5_InvalidStatusRejected ==
  /\ [](\A i \in 1..Len(Stored) : Stored[i].status \in
          {"pending", "confirmed", "preparing", "out_for_delivery", "delivered", "cancelled"})
  /\ [][\A id \in RequestIds :
          \A st \in StatusInputs \ {"pending", "confirmed", "preparing",
                                    "out_for_delivery", "delivered", "cancelled"} :
            UpdateStatus(id, st) =>
              /\ response'.code = 400
              /\ response'.body.kind = "errors"
              /\ RegistryUnchanged
              /\ broadcasts' = << >>
              /\ wire' = << >>]_vars

C5_Witness ==
  /\ response.op = "status"
  /\ response.code = 400
  /\ MapHas(inMemoryOrders, response.id)
  /\ sseClients # << >>

\* C6: a successful create stores an order whose status is pending, and a get
\* of the returned id as the next request returns that order, with that id.
C6_CreateThenGet ==
  /\ []((response.op = "create" /\ response.code = 201) =>
          /\ MapHas(inMemoryOrders, response.id)
          /\ MapGet(inMemoryOrders, response.id).status = "pending"
          /\ MapGet(inMemoryOrders, response.id) = response.body.order)
  /\ [][\A id \in RequestIds :
          (response.op = "create" /\ response.code = 201 /\ response.id = id /\ GetOrder(id)) =>
            /\ response'.code = 200
            /\ response'.body.kind = "order"
            /\ response'.body.order.id = id
            /\ response'.body.order = response.body.order]_vars

C6_Witness ==
  /\ response.op = "create"
  /\ response.code = 201
  /\ Len(inMemoryOrders) = 2
  /\ response.id = OrderId(FirstOrderNumericId + 1)

Suffix(id) == id[2]

\* C7: ids are unique and never reused: every successful create returns an id
\* whose numeric suffix exceeds that of every id issued before, no two stored
\* orders share an id, and a create overwrites no stored order.
C7_IdsUniqueIncreasing ==
  /\ [](\A i \in 1..Len(inMemoryOrders) :
          /\ inMemoryOrders[i].key = inMemoryOrders[i].value.id
          /\ Suffix(inMemoryOrders[i].key) < nextOrderNumericId
          /\ \A j \in 1..Len(inMemoryOrders) :
               i # j => inMemoryOrders[i].value.id # inMemoryOrders[j].value.id)
  /\ [][Succeeded("create") =>
          /\ Suffix(response'.id) >= nextOrderNumericId
          /\ nextOrderNumericId' > Suffix(response'.id)
          /\ \A i \in 1..Len(inMemoryOrders) :
               /\ Suffix(response'.id) > Suffix(inMemoryOrders[i].value.id)
               /\ inMemoryOrders'[i] = inMemoryOrders[i]
          /\ Len(inMemoryOrders') = Len(inMemoryOrders) + 1
          /\ inMemoryOrders'[Len(inMemoryOrders')].key = response'.id]_vars

C7_Witness ==
  /\ response.op = "create"
  /\ response.code = 201
  /\ Len(inMemoryOrders) = 2
  /\ inMemoryOrders[1].value.status = "delivered"
  /\ Suffix(inMemoryOrders[2].key) = Suffix(inMemoryOrders[1].key) + 1

\* C8: a create whose items are empty or no list, or whose deliveryAddress or
\* paymentMethod is empty or absent, answers 400 with field errors, stores no
\* order, does not advance the id counter and publishes nothing.
C8_InvalidCreateRejected ==
  [][(/\ response'.op = "create"
      /\ \E u \in Users, items \in ItemsInputs, a \in AddressInputs, p \in PaymentInputs,
            t \in now..scope.times :
           /\ \/ items.kind # "array"
              \/ items.elems = << >>
              \/ a \in {Undefined, ""}
              \/ p \in {Undefined, ""}
           /\ Create(u, items, a, p, t)) =>
       /\ response'.code = 400
       /\ response'.body.kind = "errors"
       /\ response'.body.errors # << >>
       /\ RegistryUnchanged
       /\ broadcasts' = << >>
       /\ wire' = << >>]_vars

C8_Witness ==
  /\ response.op = "create"
  /\ response.code = 400
  /\ response.body.errors = << "At least one item is required" >>
  /\ Len(inMemoryOrders) = 1
  /\ nextOrderNumericId = FirstOrderNumericId + 1

EventTypeOf(op) ==
  CASE op = "create" -> "order_created"
    [] op = "status" -> "order_updated"
    [] op = "assign" -> "order_assigned"
    [] op = "accept" -> "order_confirmed"

Mutations == {"create", "status", "assign", "accept"}

\* C10: every successful mutation publishes exactly one event, of the type of
\* the mutation, with the order as stored after the mutation as payload, and
\* writes it once to every listener in the Set at that moment.
C10_OneEventPerMutation ==
  [][\A op \in Mutations :
       Succeeded(op) =>
         /\ Len(broadcasts') = 1
         /\ broadcasts'[1].type = EventTypeOf(op)
         /\ broadcasts'[1].payload = MapGet(inMemoryOrders', response'.id)
         /\ op = "create" => broadcasts'[1].payload.status = "pending"
         /\ op = "assign" => broadcasts'[1].payload.status = "out_for_delivery"
         /\ op = "accept" => broadcasts'[1].payload.status = "confirmed"
         /\ \A id \in RequestIds, st \in StatusInputs :
              UpdateStatus(id, st) => broadcasts'[1].payload.status = st
         /\ Len(wire') = Len(sseClients)
         /\ \A c \in Range(sseClients) :
              /\ Cardinality({k \in 1..Len(wire') : wire'[k].to = c}) = 1
              /\ \A k \in 1..Len(wire') :
                   wire'[k].to = c =>
                     /\ wire'[k].frame = EventFrame(EventTypeOf(op), MapGet(inMemoryOrders', response'.id))
                     /\ socket[c] = "open" => wire'[k].outcome = "delivered"]_vars

C10_Witness ==
  /\ response.op = "assign"
  /\ response.code = 200
  /\ Len(sseClients) = 2
  /\ Len(wire) = 2
  /\ \A k \in 1..Len(wire) :
       /\ wire[k].outcome = "delivered"
       /\ wire[k].frame.event = "order_assigned"
       /\ wire[k].frame.data.status = "out_for_delivery"

\* ----------------------------------------------------- runs with a history
\* The scopes of the runs that keep a history: one order, and either one
\* connection whose events are recorded or two connections whose closes are
\* counted.
HistoryScopes ==
  { [name |-> "ordering", orders |-> 1, conns |-> 1, users |-> 1,
     itemLists |-> 1, payments |-> 1, times |-> 1],
    [name |-> "cycles", orders |-> 1, conns |-> 2, users |-> 1,
     itemLists |-> 1, payments |-> 1, times |-> 1] }

InitHistory ==
  /\ scope \in HistoryScopes
  /\ history = NoHistory
  /\ inMemoryOrders = << >>
  /\ nextOrderNumericId = FirstOrderNumericId
  /\ sseClients = << >>
  /\ pingTimers = {}
  /\ socket = [c \in Conns |-> "idle"]
  /\ now = 1
  /\ response = NoResponse
  /\ broadcasts = << >>
  /\ wire = << >>

\* The event frames of the last step that reached connection c, in order.
DeliveredAfter(c) ==
  LET Mine(w) == w.to = c /\ w.outcome = "delivered" /\ w.frame.kind = "event"
      ws == SelectSeq(wire', Mine)
  IN [k \in 1..Len(ws) |-> ws[k].frame]

\* The successful mutation of the step, as the event it is due: none or one.
AppliedAfter ==
  IF \E op \in Mutations : Succeeded(op)
  THEN << EventFrame(EventTypeOf(response'.op), MapGet(inMemoryOrders', response'.id)) >>
  ELSE << >>

\* The history after a step: a connection that opens starts afresh, a
\* connection in the Set records the mutation, every connection records the
\* frames that reached it, and a handled close is counted.
Record ==
  /\ history' =
       [applied |-> [c \in Conns |->
                       IF socket[c] = "idle" \/ scope.name # "ordering" THEN << >>
                       ELSE IF c \in Range(sseClients) THEN history.applied[c] \o AppliedAfter
                       ELSE history.applied[c]],
        stream |-> [c \in Conns |->
                      IF socket[c] = "idle" \/ scope.name # "ordering" THEN << >>
                      ELSE history.stream[c] \o DeliveredAfter(c)],
        closes |-> IF scope.name # "cycles" THEN 0
                   ELSE history.closes
                          + Cardinality({c \in Conns : socket[c] = "dead" /\ socket'[c] = "idle"})]
  /\ \A c \in Conns : Len(history'.applied[c]) <= MaxEvents
  /\ history'.closes <= MaxCloses

NextHistory == Steps /\ Record

SpecHistory == InitHistory /\ [][NextHistory]_vars

\* C11: a subscriber that stays connected receives the events of the
\* successful mutations applied while it was subscribed, in the order in
\* which they were applied.
C11_EventsInMutationOrder ==
  \A c \in Conns :
    (scope.name = "ordering" /\ socket[c] = "open")
      => history.stream[c] = history.applied[c]

C11_Witness ==
  \E c \in Conns :
    /\ socket[c] = "open"
    /\ Len(history.stream[c]) = 2
    /\ history.stream[c][1].event = "order_assigned"
    /\ history.stream[c][2].event = "order_updated"
    /\ history.stream[c][2].data.status = "delivered"

\* C12: when the write to one listener fails, the same broadcast still writes
\* to every other listener of the Set, and every listener whose client is
\* there receives the event, wherever the failing ones stand in the Set.
C12_FailureIsolation ==
  [][broadcasts' # << >> =>
       \A c \in Range(sseClients) :
         \E k \in 1..Len(wire') :
           /\ wire'[k].to = c
           /\ wire'[k].frame.kind = "event"
           /\ socket[c] = "open" => wire'[k].outcome = "delivered"]_vars

C12_Witness ==
  /\ Len(wire) = 2
  /\ wire[1].outcome = "failed"
  /\ wire[2].outcome = "delivered"
  /\ wire[2].frame.kind = "event"
  /\ wire[1].to # wire[2].to

\* C13: a mutation that passed its checks updates the registry and answers
\* 200 or 201, never 500, whether there are no listeners or some whose write
\* fails.
C13_PublishNeverFailsMutation ==
  [][/\ response'.op \in Mutations => response'.code # 500
     /\ (/\ response'.op = "create"
         /\ \E u \in Users, items \in ItemsInputs, a \in AddressInputs,
               p \in PaymentInputs, t \in now..scope.times :
              /\ items.kind = "array" /\ items.elems # << >>
              /\ a \notin {Undefined, ""}
              /\ p \notin {Undefined, ""}
              /\ Create(u, items, a, p, t)) =>
          /\ response'.code = 201
          /\ MapHas(inMemoryOrders', response'.id)
          /\ MapGet(inMemoryOrders', response'.id) = response'.body.order
     /\ \A id \in RequestIds :
          (response'.id = id /\ MapHas(inMemoryOrders, id)) =>
            LET old == MapGet(inMemoryOrders, id)
                new == MapGet(inMemoryOrders', id)
            IN /\ response'.op = "status" =>
                    \A st \in StatusInputs \ {"shipped", Undefined} :
                      UpdateStatus(id, st) => response'.code = 200 /\ new.status = st
               /\ response'.op = "assign" =>
                    \A u \in Users :
                      (Assign(id, u) /\ old.status \in {"pending", "confirmed", "preparing"})
                        => response'.code = 200 /\ new.status = "out_for_delivery"
               /\ response'.op = "accept" =>
                    ((AcceptRestaurant(id) /\ old.status = "pending")
                       => response'.code = 200 /\ new.status = "confirmed")]_vars

C13_Witness ==
  /\ response.op = "status"
  /\ response.code = 200
  /\ MapGet(inMemoryOrders, response.id).status = "cancelled"
  /\ Len(wire) = 2
  /\ \A k \in 1..Len(wire) : wire[k].outcome = "failed"

NotClosed == {c \in Conns : socket[c] # "idle"}

\* C14: the Set holds exactly the connections opened and not yet closed, each
\* once, and so do the keep-alive timers; a closed connection gets no further
\* write, and the Set does not grow over connect and disconnect cycles.
C14_SubscribersAreOpenConnections ==
  /\ [](/\ Range(sseClients) = NotClosed
        /\ Len(sseClients) = Cardinality(NotClosed)
        /\ pingTimers = NotClosed)
  /\ [][\A k \in 1..Len(wire') : socket'[wire'[k].to] # "idle"]_vars

C14_Witness ==
  /\ history.closes = 2
  /\ Len(sseClients) = 1
  /\ response.op = "status"
  /\ response.code = 200
  /\ Len(wire) = 1
  /\ wire[1].to = sseClients[1]

C16_OneTerminalState ==
  [][\A i \in 1..Len(inMemoryOrders) :
       /\ inMemoryOrders[i].value.status = "delivered"
            => inMemoryOrders'[i].value.status # "cancelled"
       /\ inMemoryOrders[i].value.status = "cancelled"
            => inMemoryOrders'[i].value.status # "delivered"]_vars

\* C17: no step changes the payoutAmount, id, items or createdAt of a stored
\* order: they stay as create set them.
C17_CreationFieldsFixed ==
  [][\A i \in 1..Len(inMemoryOrders) :
       LET old == inMemoryOrders[i].value
           new == inMemoryOrders'[i].value
       IN /\ new.payoutAmount = old.payoutAmount
          /\ new.id = old.id
          /\ new.items = old.items
          /\ new.createdAt = old.createdAt]_vars

C17_Witness ==
  /\ Len(Stored) = 1
  /\ Stored[1].status = "cancelled"
  /\ Stored[1].driver # NoDriver
  /\ Stored[1].payoutAmount = 30
  /\ Stored[1].items = << [price |-> 100, quantity |-> 2] >>
  /\ response.op = "accept"
  /\ response.code = 400

\* The sum over the items of price times quantity, a quantity of 0 (missing
\* or zero) counting as 1.
OrderValue(elems) ==
  LET sum[n \in 0..Len(elems)] ==
        IF n = 0 THEN 0
        ELSE sum[n - 1]
               + elems[n].price * (IF elems[n].quantity = 0 THEN 1 ELSE elems[n].quantity)
  IN sum[Len(elems)]

C19_UnknownIdNotFound ==
  [][\A id \in RequestIds :
       (/\ response'.id = id
        /\ ~MapHas(inMemoryOrders, id)
        /\ \/ GetOrder(id)
           \/ \E st \in StatusInputs \ {"shipped", Undefined} : UpdateStatus(id, st)
           \/ \E u \in Users : Assign(id, u)
           \/ AcceptRestaurant(id)) =>
         /\ response'.code = 404
         /\ response'.body = ErrorBody("Order not found")
         /\ RegistryUnchanged
         /\ ~MapHas(inMemoryOrders', id)
         /\ broadcasts' = << >>
         /\ wire' = << >>]_vars

C19_Witness ==
  /\ response.op = "assign"
  /\ response.code = 404
  /\ response.id = OrderId(FirstOrderNumericId + 1)
  /\ Len(inMemoryOrders) = 1
  /\ nextOrderNumericId = FirstOrderNumericId + 1

Issued == FirstOrderNumericId..(nextOrderNumericId - 1)

\* C20: no step removes an order or moves it in the Map; every id issued is
\* stored, so a get of it answers 200 with the order, and list returns all
\* orders in the order of their creation.
C20_NeverDeleted ==
  /\ [](/\ Len(inMemoryOrders) = nextOrderNumericId - FirstOrderNumericId
        /\ \A i \in 1..Len(inMemoryOrders) :
             inMemoryOrders[i].key = OrderId(FirstOrderNumericId + i - 1))
  /\ [][/\ Len(inMemoryOrders') >= Len(inMemoryOrders)
        /\ \A i \in 1..Len(inMemoryOrders) : inMemoryOrders'[i].key = inMemoryOrders[i].key
        /\ response'.op = "list" =>
             /\ response'.code = 200
             /\ Len(response'.body.orders) = Cardinality(Issued)
             /\ \A i \in 1..Len(response'.body.orders) :
                  /\ response'.body.orders[i].id = OrderId(FirstOrderNumericId + i - 1)
                  /\ response'.body.orders[i] = MapGet(inMemoryOrders, OrderId(FirstOrderNumericId + i - 1))
        /\ \A id \in RequestIds :
             (response'.op = "get" /\ GetOrder(id) /\ Suffix(id) \in Issued) =>
               /\ response'.code = 200
               /\ response'.body = OrderBody(MapGet(inMemoryOrders, id))]_vars

C20_Witness ==
  /\ response.op = "list"
  /\ Len(response.body.orders) = 2
  /\ response.body.orders[1].id = OrderId(FirstOrderNumericId)
  /\ response.body.orders[1].status = "delivered"
  /\ response.body.orders[2].status = "out_for_delivery"

\* C21: no order returned by list-available has a driver recorded on it.
C21_AvailableUnassigned ==
  [][response'.op = "available" =>
       \A k \in 1..Len(response'.body.orders) :
         response'.body.orders[k].driver = NoDriver]_vars

\* C22: an assign of an available order succeeds, records its caller and
\* takes the order out of the available statuses in the same step; from then
\* on, until an update-status of that order, the order keeps its status and
\* driver and every assign of it answers 400, whoever calls.  So of two
\* assigns of one available order exactly one succeeds, also when the second
\* follows the first at once.
C22_OneAssignWins ==
  [][\A id \in RequestIds :
       MapHas(inMemoryOrders, id) =>
         LET old == MapGet(inMemoryOrders, id)
             new == MapGet(inMemoryOrders', id)
         IN /\ (response'.op = "assign" /\ response'.id = id
                  /\ old.status \in {"pending", "confirmed", "preparing"}) =>
                 \A u \in Users :
                   Assign(id, u) =>
                     /\ response'.code = 200
                     /\ new.driver.id = u.id
                     /\ new.status = "out_for_delivery"
            /\ (old.status = "out_for_delivery" /\ old.driver # NoDriver
                  /\ ~(response'.op = "status" /\ response'.id = id)) =>
                 /\ new.status = old.status
                 /\ new.driver = old.driver
                 /\ (response'.op = "assign" /\ response'.id = id) =>
                      /\ response'.code = 400
                      /\ response'.body = ErrorBody("Order is not available for assignment")
            /\ (response.op = "assign" /\ response.code = 200 /\ response.id = id
                  /\ response'.op = "assign" /\ response'.id = id) =>
                 /\ response'.code = 400
                 /\ new.driver = response.body.order.driver]_vars

C22_Witness ==
  /\ response.op = "assign"
  /\ response.code = 400
  /\ MapHas(inMemoryOrders, response.id)
  /\ MapGet(inMemoryOrders, response.id).status = "out_for_delivery"
  /\ MapGet(inMemoryOrders, response.id).driver = [id |-> "u2", name |-> "Driver"]
  /\ Cardinality(Users) >= 2

====
